---- MODULE Spec2Model ----
(***************************************************************************)
(* withToken (src/src/index.ts): the request interceptor that injects the  *)
(* stored token, and the response interceptor that refreshes the token on  *)
(* a 401, queues the requests failing meanwhile, and retries them.         *)
(*                                                                         *)
(* One JavaScript event loop: every action below is the code that runs     *)
(* between two suspension points (an await of a store function, of the     *)
(* network, or of a queued promise).                                       *)
(***************************************************************************)
EXTENDS Integers, Sequences, FiniteSets, TLC

\* Bounds of the model.
NumReqs == 3        \* requests the application issues
NumClients == 2     \* axios instances augmented by withToken
MaxRejections == 2  \* calls of functions of the options that reject
MaxCycles == 2      \* refresh cycles of a run

Clients == 1..NumClients
Users == 1..NumReqs                  \* requests issued by the application
PostId(r) == NumReqs + r             \* the refresh POST issued by driver r
Posts == {PostId(r) : r \in Users}
Ids == Users \cup Posts

(***************************************************************************)
(* JavaScript values, tagged by their type.                                *)
(***************************************************************************)
Undefined == <<"undefined">>
Null == <<"null">>
Str(s) == <<"string", s>>
Error(msg) == <<"error", msg>>
Obj(token, accessToken, refreshToken) == <<"object", token, accessToken, refreshToken>>
Response(data) == <<"response", data>>
False == <<"boolean", "false">>

IsResponse(v) == v[1] = "response"

\* How a promise of the model has settled: a request's promise is resolved
\* with a response and a queue item's with a token (a string); whatever else
\* it holds is the reason it was rejected with.
IsRejection(v) == v # Undefined /\ v[1] \notin {"response", "string"}

\* ToBoolean: undefined, null and "" are falsy; objects and errors are truthy.
Truthy(v) ==
    CASE v[1] = "string" -> v[2] # ""
      [] v[1] \in {"undefined", "null"} -> FALSE
      [] v[1] = "boolean" -> v[2] = "true"
      [] OTHER -> TRUE

\* a || b
Or(a, b) == IF Truthy(a) THEN a ELSE b

\* `${v}` of a template literal
Template(v) == IF v[1] = "string" THEN v[2] ELSE v[1]

\* error of a response with a status other than 2xx
AxiosError(status) ==
    IF status = 401 THEN Error("Request failed with status code 401")
                    ELSE Error("Request failed with status code 500")
NoRefreshToken == Error("No refresh token available")
\* reading a property of null or undefined
TypeError == Error("TypeError")
\* rejection of a function of the options with an Error
StoreError(fn) == Error(fn)

(***************************************************************************)
(* Options and their defaults.                                             *)
(***************************************************************************)
authHeaderPrefix == "Bearer "

refreshTokenResponseAdapter(res) ==
    [token |-> Or(res[2], res[3]), refreshToken |-> res[4]]

refreshTokenPayloadAdapter(refreshToken) == <<"object", refreshToken>>

\* `${authHeaderPrefix}${token}`
AuthHeader(token) == Str(authHeaderPrefix \o Template(token))


(***************************************************************************)
(* State.                                                                  *)
(***************************************************************************)
VARIABLES
    client,             \* the axios instance a request is issued on
    onRefreshFailure,   \* per instance: is the optional callback configured
    rejected,           \* calls of functions of the options that rejected so far
    storeToken,         \* per instance: what getTokenFn returns
    storeRefreshToken,  \* per instance: what getRefreshTokenFn returns
    isRefreshing,       \* per instance: the closure's flag
    failedQueue,        \* per instance: the closure's queue, of request ids
    defaultsAuth,       \* per instance: defaults.headers.common.Authorization
    pc,                 \* per request: the suspension point it is at
    retry,              \* per request: config._retry
    auth,               \* per request: config.headers.Authorization
    result,             \* per request: how its promise settled
    waiter,             \* per request: how its queued promise settled
    local,              \* per request: the driver's local variables
    cycle,              \* per instance: refresh cycles begun so far, a cycle
                        \*   lasting as long as some handler is driving a refresh
    cycleDriver,        \* per instance: the request that began the latest cycle
    postCalls,          \* per instance: axiosInstance.post calls of the latest cycle
    settled,            \* per request: continuations of its queue item invoked
    reissued,           \* per request: times the handler has issued it again
    succeeded,          \* per request: the latest refresh it drove has reached
                        \*   lines 156-163
    enqDriver,          \* per request: the driver of the cycle it was queued in
    settledBy,          \* per request: the driver of the cycle whose drain
                        \*   invoked a continuation of its queue item
    callbackLog,        \* per instance: the errors onRefreshFailure was called
                        \*   with during the latest cycle
    microtasks          \* the event loop: requests whose awaited promise has settled

config == <<client, onRefreshFailure>>
store == <<storeToken, storeRefreshToken>>
closure == <<isRefreshing, failedQueue>>
request == <<pc, retry, auth, result>>
history == <<cycle, cycleDriver, postCalls, settled, reissued, succeeded, enqDriver,
             settledBy, callbackLog>>
vars == <<config, rejected, store, closure, defaultsAuth, request, waiter, local, history,
          microtasks>>

NoLocal == [refreshToken |-> Undefined, payload |-> Undefined,
            newToken |-> Undefined, newRefreshToken |-> Undefined,
            err |-> Undefined]

\* Bodies the refresh endpoint may answer a 2xx with: objects, with the token
\* in either field the default adapter reads, or in neither.
RefreshBodies ==
    { Obj(Str("abc2"), Undefined, Str("r2")),
      Obj(Str(""), Str("abc3"), Str("r3")),
      Obj(Str(""), Undefined, Str("r4")) }
Statuses == {200, 401, 500}

\* What the stores may hold when the application starts.
InitialTokens == { <<Str("abc"), Null>>, <<Str("abc"), Str("r1")>> }

\* The instance each request is issued on: all on the first, or the first
\* request on the first instance and the others on the second.  A refresh
\* POST is made on the instance of its driver (line 139).
OneClient == [r \in Ids |-> 1]
TwoClients == [r \in Ids |-> IF r \in {1, PostId(1)} THEN 1 ELSE 2]

InitOn(instances) ==
    /\ client = instances
    /\ \E given \in BOOLEAN : onRefreshFailure = [c \in Clients |-> given]
    /\ rejected = 0
    /\ \E t \in InitialTokens :
          /\ storeToken = [c \in Clients |-> t[1]]
          /\ storeRefreshToken = [c \in Clients |-> t[2]]
    /\ isRefreshing = [c \in Clients |-> FALSE]
    /\ failedQueue = [c \in Clients |-> <<>>]
    /\ defaultsAuth = [c \in Clients |-> Undefined]
    /\ pc = [r \in Ids |-> "new"]
    /\ retry = [r \in Ids |-> FALSE]
    /\ auth = [r \in Ids |-> Undefined]
    /\ result = [r \in Ids |-> Undefined]
    /\ waiter = [r \in Ids |-> Undefined]
    /\ local = [r \in Ids |-> NoLocal]
    /\ cycle = [c \in Clients |-> 0]
    /\ cycleDriver = [c \in Clients |-> 0]
    /\ postCalls = [c \in Clients |-> 0]
    /\ settled = [r \in Ids |-> 0]
    /\ reissued = [r \in Ids |-> 0]
    /\ succeeded = [r \in Ids |-> FALSE]
    /\ enqDriver = [r \in Ids |-> 0]
    /\ settledBy = [r \in Ids |-> 0]
    /\ callbackLog = [c \in Clients |-> <<>>]
    /\ microtasks = <<>>

Init == InitOn(OneClient)
InitTwoClients == InitOn(TwoClients)

\* What a call of function fn of the options may reject with.  The code takes
\* any reason: an Error or a falsy one.  The catch block of the driver only
\* tests the reason (line 82), so there one falsy reason stands for all; the
\* response error handler reads properties of it (lines 106 and 112): false
\* has them and null has not, and the error of a request that getTokenFn made
\* itself and that was answered 401 carries a response with that status and
\* the config of that request, which has no _retry.
Rejections(fn) ==
    IF fn = "getTokenFn" THEN {StoreError(fn), False, Null, AxiosError(401)}
                         ELSE {StoreError(fn), Null}

\* A call of fn rejects with reason.
Rejects(fn, reason) ==
    /\ rejected < MaxRejections
    /\ reason \in Rejections(fn)
    /\ rejected' = rejected + 1

(***************************************************************************)
(* The event loop.  A continuation whose awaited promise has settled is a  *)
(* microtask; microtasks run in the order they were queued, and before the *)
(* completion of any store or network operation is delivered.              *)
(***************************************************************************)
Idle == microtasks = <<>>
Running(r) == microtasks # <<>> /\ Head(microtasks) = r

\* Request r's promise settles: when r is a refresh POST, the driver awaiting
\* it (line 139) is resumed.
Notify(r, queue) == IF r \in Posts THEN Append(queue, r - NumReqs) ELSE queue

(***************************************************************************)
(* axiosInstance(config): the instance's defaults are merged under the     *)
(* request's own headers, then the request interceptor runs.               *)
(***************************************************************************)
MergedAuth(c, headers_auth) ==
    IF headers_auth = Undefined THEN defaultsAuth[c] ELSE headers_auth

\* The application issues request r.
Issue(r) ==
    /\ Idle
    /\ r \in Users
    /\ pc[r] = "new"
    /\ IF r = 1 THEN TRUE ELSE pc[r - 1] # "new"   \* requests are alike: issued in order
    /\ pc' = [pc EXCEPT ![r] = "getToken"]
    /\ auth' = [auth EXCEPT ![r] = MergedAuth(client[r], auth[r])]
    /\ UNCHANGED <<config, rejected, store, closure, defaultsAuth, retry, result, waiter,
                   local, history, microtasks>>

\* Response error handler, lines 106-112 and 183, given a rejection of the
\* request interceptor: error.config of line 106 throws when error is null or
\* undefined; a reason without a response is rejected as it is.
ErrorWithoutResponse(error) ==
    IF error \in {Null, Undefined} THEN TypeError ELSE error

\* Request interceptor, lines 93-98, once getTokenFn() has returned token.
InjectToken(config_auth, token) ==
    IF Truthy(token) THEN AuthHeader(token) ELSE config_auth

(***************************************************************************)
(* The interceptors: the response error handler is given the 401 of a      *)
(* response and also what the request interceptor rejected with.           *)
(***************************************************************************)
\* the suspension points between line 128 and the finally of lines 177-179
DriverPcs == {"getRefreshToken", "post", "setToken", "setRefreshToken",
              "removeToken", "onRefreshFailure"}

\* A response handler that never finds a refresh in progress.
RefreshInProgressUnchecked(c) == FALSE

\* A flag that all the instances share.
RefreshInProgressAnywhere(c) == \E d \in Clients : isRefreshing[d]

\* line 116
RefreshInProgress(c) == isRefreshing[c]

\* the refresh cycles begun on the first c instances
RECURSIVE Cycles(_)
Cycles(c) == IF c = 0 THEN 0 ELSE cycle[c] + Cycles(c - 1)

\* error.response?.status of line 112
Status(error) ==
    IF error = AxiosError(401) THEN 401
    ELSE IF error = AxiosError(500) THEN 500 ELSE 0

\* lines 113-120: the handler marks originalRequest, pushes the continuations
\* of a new promise and awaits it
JoinQueue(r) ==
    /\ retry' = [retry EXCEPT ![r] = TRUE]
    /\ failedQueue' = [failedQueue EXCEPT ![client[r]] = Append(@, r)]
    /\ pc' = [pc EXCEPT ![r] = "queued"]
    /\ waiter' = [waiter EXCEPT ![r] = Undefined]
    /\ settled' = [settled EXCEPT ![r] = 0]
    /\ settledBy' = [settledBy EXCEPT ![r] = 0]
    /\ enqDriver' = [enqDriver EXCEPT ![r] = cycleDriver[client[r]]]
    /\ UNCHANGED <<config, store, isRefreshing, defaultsAuth, result, local,
                   cycle, cycleDriver, succeeded, postCalls, reissued, callbackLog,
                   microtasks>>

\* lines 113 and 128-132: the handler marks originalRequest, sets the flag and
\* asks for the refresh token
BecomeDriver(r) ==
    /\ Cycles(NumClients) < MaxCycles
    /\ retry' = [retry EXCEPT ![r] = TRUE]
    /\ isRefreshing' = [isRefreshing EXCEPT ![client[r]] = TRUE]
    /\ pc' = [pc EXCEPT ![r] = "getRefreshToken"]
    /\ local' = [local EXCEPT ![r] = NoLocal]
    /\ succeeded' = [succeeded EXCEPT ![r] = FALSE]
    /\ IF \E d \in Ids : client[d] = client[r] /\ pc[d] \in DriverPcs
       THEN UNCHANGED <<cycle, cycleDriver, postCalls, callbackLog>>
       ELSE \* no handler is driving a refresh: a new cycle begins
            /\ cycle' = [cycle EXCEPT ![client[r]] = @ + 1]
            /\ cycleDriver' = [cycleDriver EXCEPT ![client[r]] = r]
            /\ postCalls' = [postCalls EXCEPT ![client[r]] = 0]
            /\ callbackLog' = [callbackLog EXCEPT ![client[r]] = <<>>]
    /\ UNCHANGED <<config, store, failedQueue, defaultsAuth, result, waiter,
                   settled, reissued, enqDriver, settledBy, microtasks>>

\* Request interceptor, lines 92-100.  A rejection of getTokenFn rejects the
\* request before it is sent and reaches the response error handler: a reason
\* with a response of status 401 and a config without _retry passes line 112,
\* and that config is the originalRequest the handler marks, queues or drives
\* a refresh for, and issues again; any other reason is rejected at line 183.
RequestInterceptor(r) ==
    /\ Idle
    /\ pc[r] = "getToken"
    /\ \/ /\ auth' = [auth EXCEPT ![r] = InjectToken(auth[r], storeToken[client[r]])]
          /\ pc' = [pc EXCEPT ![r] = "sent"]
          /\ UNCHANGED <<config, rejected, store, closure, defaultsAuth, retry,
                         result, waiter, local, history, microtasks>>
       \/ \E reason \in Rejections("getTokenFn") :
             /\ Rejects("getTokenFn", reason)
             /\ IF Status(ErrorWithoutResponse(reason)) = 401
                THEN /\ IF RefreshInProgress(client[r]) THEN JoinQueue(r)
                                                        ELSE BecomeDriver(r)
                     /\ auth' = [auth EXCEPT ![r] = Undefined]
                ELSE /\ result' = [result EXCEPT ![r] = ErrorWithoutResponse(reason)]
                     /\ pc' = [pc EXCEPT ![r] = "done"]
                     /\ microtasks' = Notify(r, microtasks)
                     /\ UNCHANGED <<config, store, closure, defaultsAuth, retry,
                                    auth, waiter, local, history>>

(***************************************************************************)
(* processQueue(error, token), lines 80-89.                                *)
(***************************************************************************)
Queued(c) == {failedQueue[c][k] : k \in 1..Len(failedQueue[c])}

\* What forEach's callback does with one queue item: the value it rejects or
\* resolves the item's promise with, or Undefined when it calls neither.
Settlement(error, token) ==
    IF Truthy(error) THEN error
    ELSE IF Truthy(token) THEN token
    ELSE Undefined

\* A promise settles once: later calls of resolve or reject change nothing.
Settle(old, with) == IF old = Undefined THEN with ELSE old

\* A loop that walks the queue from its end.
forEachReversed(q) == [k \in 1..Len(q) |-> q[Len(q) + 1 - k]]

\* failedQueue.forEach, line 81: the items in index order, which is the order
\* of the pushes of line 118
forEach(q) == q

processQueue(c, error, token, queue) ==
    /\ waiter' = [i \in Ids |->
                    IF i \in Queued(c) THEN Settle(waiter[i], Settlement(error, token))
                    ELSE waiter[i]]
    /\ settled' = [i \in Ids |->
                    IF i \in Queued(c) /\ Settlement(error, token) # Undefined
                    THEN settled[i] + 1 ELSE settled[i]]
    /\ settledBy' = [i \in Ids |->
                    IF i \in Queued(c) /\ Settlement(error, token) # Undefined
                    THEN cycleDriver[c] ELSE settledBy[i]]
    /\ microtasks' = IF Settlement(error, token) # Undefined
                      THEN queue \o forEach(failedQueue[c]) ELSE queue
    /\ failedQueue' = [failedQueue EXCEPT ![c] = <<>>]

\* line 105: a 2xx response passes through
PassThrough(r) ==
    /\ Idle
    /\ pc[r] = "sent"
    /\ \E data \in (IF r \in Posts THEN RefreshBodies ELSE {Str("ok")}) :
          result' = [result EXCEPT ![r] = Response(data)]
    /\ pc' = [pc EXCEPT ![r] = "done"]
    /\ microtasks' = Notify(r, microtasks)
    /\ UNCHANGED <<config, rejected, store, closure, defaultsAuth, retry, auth, waiter,
                   local, history>>

\* line 112
ShouldRefresh(r, status) == status = 401 /\ ~retry[r]

\* lines 112-120: a first 401 while a refresh is running joins the queue
Enqueue(r) ==
    /\ Idle
    /\ pc[r] = "sent"
    /\ ShouldRefresh(r, 401)
    /\ RefreshInProgress(client[r])
    /\ JoinQueue(r)
    /\ UNCHANGED <<rejected, auth>>

\* lines 112-132: a first 401 while no refresh is running starts one
StartRefresh(r) ==
    /\ Idle
    /\ pc[r] = "sent"
    /\ ShouldRefresh(r, 401)
    /\ ~RefreshInProgress(client[r])
    /\ BecomeDriver(r)
    /\ UNCHANGED <<rejected, auth>>

\* A handler that ends the session on any error it rejects.
PropagateClearing(r) ==
    /\ Idle
    /\ pc[r] = "sent"
    /\ \E status \in Statuses \ {200} :
          /\ ~ShouldRefresh(r, status)
          /\ result' = [result EXCEPT ![r] = AxiosError(status)]
    /\ pc' = [pc EXCEPT ![r] = "done"]
    /\ microtasks' = Notify(r, microtasks)
    /\ storeToken' = [storeToken EXCEPT ![client[r]] = Null]
    /\ storeRefreshToken' = [storeRefreshToken EXCEPT ![client[r]] = Null]
    /\ UNCHANGED <<config, rejected, closure, defaultsAuth, retry, auth, waiter, local,
                   history>>

\* lines 182-183: any other error is rejected as it is
Propagate(r) ==
    /\ Idle
    /\ pc[r] = "sent"
    /\ \E status \in Statuses \ {200} :
          /\ ~ShouldRefresh(r, status)
          /\ result' = [result EXCEPT ![r] = AxiosError(status)]
    /\ pc' = [pc EXCEPT ![r] = "done"]
    /\ microtasks' = Notify(r, microtasks)
    /\ UNCHANGED <<config, rejected, store, closure, defaultsAuth, retry, auth, waiter,
                   local, history>>

\* lines 121-125: the queued promise has settled
WaiterResumed(r) ==
    /\ Running(r)
    /\ pc[r] = "queued"
    /\ IF IsRejection(waiter[r])
       THEN /\ result' = [result EXCEPT ![r] = waiter[r]]
            /\ pc' = [pc EXCEPT ![r] = "done"]
            /\ microtasks' = Notify(r, Tail(microtasks))
            /\ UNCHANGED <<auth, reissued>>
       ELSE /\ auth' = [auth EXCEPT ![r] = AuthHeader(waiter[r])]
            /\ pc' = [pc EXCEPT ![r] = "getToken"]
            /\ reissued' = [reissued EXCEPT ![r] = @ + 1]
            /\ microtasks' = Tail(microtasks)
            /\ UNCHANGED result
    /\ UNCHANGED <<config, rejected, store, closure, defaultsAuth, retry, waiter, local,
                   cycle, cycleDriver, succeeded, postCalls, settled, enqDriver, settledBy,
                   callbackLog>>


(***************************************************************************)
(* The refresh driver, lines 128-179.                                      *)
(***************************************************************************)
\* lines 164-169: the catch block up to its first await; loc is the driver's
\* local variables as the try block left them
Catch(r, err, loc, queue) ==
    /\ processQueue(client[r], err, Null, queue)
    /\ local' = [local EXCEPT ![r] = [loc EXCEPT !.err = err]]
    /\ pc' = [pc EXCEPT ![r] = "removeToken"]
    /\ UNCHANGED <<config, store, isRefreshing, defaultsAuth, retry, auth, result,
                   cycle, cycleDriver, succeeded, postCalls, reissued, enqDriver, callbackLog>>

\* lines 132-142: getRefreshTokenFn() has returned
GotRefreshToken(r) ==
    /\ Idle
    /\ r \in Users
    /\ pc[r] = "getRefreshToken"
    /\ \/ \E reason \in Rejections("getRefreshTokenFn") :
             /\ Rejects("getRefreshTokenFn", reason)
             /\ Catch(r, reason, local[r], microtasks)
       \/ LET refreshToken == storeRefreshToken[client[r]]
              loc == [local[r] EXCEPT !.refreshToken = refreshToken]
          IN  IF ~Truthy(refreshToken)
              THEN Catch(r, NoRefreshToken, loc, microtasks) /\ UNCHANGED rejected
              ELSE /\ local' = [local EXCEPT ![r] =
                          [loc EXCEPT !.payload = refreshTokenPayloadAdapter(refreshToken)]]
                   /\ postCalls' = [postCalls EXCEPT ![client[r]] = @ + 1]
                   /\ pc' = [pc EXCEPT ![r] = "post", ![PostId(r)] = "getToken"]
                   \* line 139: a new config, without headers, and a new promise
                   /\ auth' = [auth EXCEPT ![PostId(r)] = MergedAuth(client[r], Undefined)]
                   /\ result' = [result EXCEPT ![PostId(r)] = Undefined]
                   /\ UNCHANGED <<config, rejected, store, closure, defaultsAuth,
                                  retry,
                                  waiter, cycle, cycleDriver, succeeded, settled, reissued,
                                  enqDriver, settledBy, callbackLog, microtasks>>

\* lines 139-149: the promise of axiosInstance.post has settled
PostReturned(r) ==
    /\ Running(r)
    /\ r \in Users
    /\ pc[r] = "post"
    /\ LET res == result[PostId(r)]
       IN  IF IsRejection(res)
           THEN Catch(r, res, local[r], Tail(microtasks)) /\ UNCHANGED rejected
           ELSE LET adapted == refreshTokenResponseAdapter(res[2])
                IN  /\ local' = [local EXCEPT ![r].newToken = adapted.token,
                                               ![r].newRefreshToken = adapted.refreshToken]
                    /\ pc' = [pc EXCEPT ![r] = "setToken"]
                    /\ microtasks' = Tail(microtasks)
                    /\ UNCHANGED <<config, rejected, store, closure, defaultsAuth,
                                   retry, auth,
                                   result, waiter, history>>

\* lines 149-150: setTokenFn(newToken) has returned
TokenSet(r) ==
    /\ Idle
    /\ pc[r] = "setToken"
    /\ \/ \E reason \in Rejections("setTokenFn") :
             /\ Rejects("setTokenFn", reason)
             /\ Catch(r, reason, local[r], microtasks)
       \/ /\ storeToken' = [storeToken EXCEPT ![client[r]] = local[r].newToken]
          /\ pc' = [pc EXCEPT ![r] = "setRefreshToken"]
          /\ UNCHANGED <<config, rejected, storeRefreshToken, closure, defaultsAuth,
                         retry, auth,
                         result, waiter, local, history, microtasks>>

\* lines 150-163 and 177-179: setRefreshTokenFn(newRefreshToken) has returned;
\* the queue is released, the driving request issued again, the flag reset
RefreshTokenSet(r) ==
    /\ Idle
    /\ pc[r] = "setRefreshToken"
    /\ \/ \E reason \in Rejections("setRefreshTokenFn") :
             /\ Rejects("setRefreshTokenFn", reason)
             /\ Catch(r, reason, local[r], microtasks)
       \/ /\ storeRefreshToken' =
                [storeRefreshToken EXCEPT ![client[r]] = local[r].newRefreshToken]
          /\ defaultsAuth' = [defaultsAuth EXCEPT ![client[r]] = AuthHeader(local[r].newToken)]
          /\ processQueue(client[r], Null, local[r].newToken, microtasks)
          /\ auth' = [auth EXCEPT ![r] = AuthHeader(local[r].newToken)]
          /\ pc' = [pc EXCEPT ![r] = "getToken"]
          /\ reissued' = [reissued EXCEPT ![r] = @ + 1]
          /\ succeeded' = [succeeded EXCEPT ![r] = TRUE]
          /\ isRefreshing' = [isRefreshing EXCEPT ![client[r]] = FALSE]
          /\ UNCHANGED <<config, rejected, storeToken, retry, result, local, cycle,
                         cycleDriver, postCalls, enqDriver, callbackLog>>

\* lines 169-179: removeTokenFn() has returned
TokenRemoved(r) ==
    /\ Idle
    /\ pc[r] = "removeToken"
    /\ \/ \* it rejects: the catch block is left with that error
          /\ \E reason \in Rejections("removeTokenFn") :
                /\ Rejects("removeTokenFn", reason)
                /\ result' = [result EXCEPT ![r] = reason]
          /\ pc' = [pc EXCEPT ![r] = "done"]
          /\ isRefreshing' = [isRefreshing EXCEPT ![client[r]] = FALSE]
          /\ UNCHANGED <<store, callbackLog>>
       \/ /\ UNCHANGED rejected
          /\ storeToken' = [storeToken EXCEPT ![client[r]] = Null]
          /\ storeRefreshToken' = [storeRefreshToken EXCEPT ![client[r]] = Null]
          /\ IF onRefreshFailure[client[r]]
             THEN /\ callbackLog' = [callbackLog EXCEPT ![client[r]] =
                                        Append(@, local[r].err)]
                  /\ pc' = [pc EXCEPT ![r] = "onRefreshFailure"]
                  /\ UNCHANGED <<result, isRefreshing>>
             ELSE /\ result' = [result EXCEPT ![r] = local[r].err]
                  /\ pc' = [pc EXCEPT ![r] = "done"]
                  /\ isRefreshing' = [isRefreshing EXCEPT ![client[r]] = FALSE]
                  /\ UNCHANGED callbackLog
    /\ UNCHANGED <<config, failedQueue, defaultsAuth, retry, auth, waiter, local,
                   cycle, cycleDriver, succeeded, postCalls, settled, reissued, enqDriver,
                   settledBy, microtasks>>

\* lines 173-179: onRefreshFailure(err) has returned
CallbackReturned(r) ==
    /\ Idle
    /\ pc[r] = "onRefreshFailure"
    /\ \/ /\ result' = [result EXCEPT ![r] = local[r].err]
          /\ UNCHANGED rejected
       \/ \E reason \in Rejections("onRefreshFailure") :
             /\ Rejects("onRefreshFailure", reason)
             /\ result' = [result EXCEPT ![r] = reason]
    /\ pc' = [pc EXCEPT ![r] = "done"]
    /\ isRefreshing' = [isRefreshing EXCEPT ![client[r]] = FALSE]
    /\ UNCHANGED <<config, store, failedQueue, defaultsAuth, retry, auth, waiter,
                   local, history, microtasks>>

Next ==
    \E r \in Ids :
        \/ Issue(r)
        \/ RequestInterceptor(r)
        \/ PassThrough(r)
        \/ Enqueue(r)
        \/ StartRefresh(r)
        \/ Propagate(r)
        \/ WaiterResumed(r)
        \/ GotRefreshToken(r)
        \/ PostReturned(r)
        \/ TokenSet(r)
        \/ RefreshTokenSet(r)
        \/ TokenRemoved(r)
        \/ CallbackReturned(r)

Spec == Init /\ [][Next]_vars

\* two instances augmented by two calls of withToken, each with its own closure
SpecTwoClients == InitTwoClients /\ [][Next]_vars


(***************************************************************************)
(* Vocabulary of the properties.                                           *)
(***************************************************************************)
Drivers(c) == {r \in Ids : client[r] = c /\ pc[r] \in DriverPcs}

\* request i joined the queue during the cycle driven by r
QueuedDuring(i, r) == enqDriver[i] = r

\* No store operation, network call or continuation is outstanding: whatever
\* is still waiting waits for something only a new request could bring about.
Quiescent ==
    /\ microtasks = <<>>
    /\ \A r \in Ids : pc[r] \in {"new", "queued", "post", "done"}

(***************************************************************************)
(* C1.  Single-flight: on each client at most one response handler is      *)
(* between setting isRefreshing (line 128) and the finally that resets it  *)
(* (line 178), and the flag is set exactly while there is one.             *)
(***************************************************************************)
SingleFlight ==
    \A c \in Clients :
        /\ Cardinality(Drivers(c)) <= 1
        /\ isRefreshing[c] <=> Drivers(c) # {}

\* a refresh is in flight while two other requests have had their 401
SingleFlightWitness ==
    \E c \in Clients : Cardinality(Drivers(c)) = 1 /\ Len(failedQueue[c]) >= 2


(***************************************************************************)
(* C2, as claimed.  Whatever the number of requests that fail while a      *)
(* cycle is running, exactly one POST to the refresh endpoint is made in   *)
(* the cycle: a cycle that is over has made one.                           *)
(***************************************************************************)
ExactlyOnePost ==
    \A c \in Clients : (cycle[c] > 0 /\ ~isRefreshing[c]) => postCalls[c] = 1

(***************************************************************************)
(* C2, amended.  Whatever the number of requests that fail while a cycle   *)
(* is running, the cycle calls axiosInstance.post at most once: once when  *)
(* getRefreshTokenFn has returned a refresh token to its driver, and not   *)
(* at all before that or when it returned none or failed.                  *)
(***************************************************************************)
OnePostPerCycle ==
    \A c \in Clients :
        cycle[c] > 0 =>
            postCalls[c] = IF Truthy(local[cycleDriver[c]].refreshToken) THEN 1 ELSE 0

\* a cycle that two other requests joined has made its one POST and is over
OnePostPerCycleWitness ==
    \E c \in Clients :
        /\ cycle[c] > 0 /\ ~isRefreshing[c] /\ postCalls[c] = 1
        /\ Cardinality({i \in Users : QueuedDuring(i, cycleDriver[c])}) >= 2

(***************************************************************************)
(* C3.  No request is issued again more than once because of a 401: a      *)
(* request the handler has issued again is in flight or settled, never in  *)
(* the queue and never driving a refresh, so a second 401 is the error its *)
(* caller gets.                                                            *)
(***************************************************************************)
RetriedAtMostOnce ==
    \A r \in Ids :
        /\ reissued[r] <= 1
        /\ reissued[r] = 1 => pc[r] \in {"getToken", "sent", "done"}

(***************************************************************************)
(* C4.  Every request that joined the queue has its promise resolved or    *)
(* rejected, once: never twice, and once every store operation and network *)
(* call has completed there is no queued request left whose promise was    *)
(* not settled.                                                            *)
(***************************************************************************)
WaitersSettledOnce ==
    /\ \A r \in Ids : settled[r] <= 1
    /\ Quiescent => \A r \in Ids : enqDriver[r] # 0 => settled[r] = 1

(***************************************************************************)
(* C5.  The queue is empty whenever no refresh is running.                 *)
(***************************************************************************)
IdleQueueEmpty ==
    \A c \in Clients : ~isRefreshing[c] => failedQueue[c] = <<>>

(***************************************************************************)
(* C6.  Every cycle returns to idle: once every store operation and        *)
(* network call has completed, no client is left refreshing.               *)
(***************************************************************************)
CycleEnds ==
    Quiescent => \A c \in Clients : ~isRefreshing[c]

(***************************************************************************)
(* C7.  The response to the refresh POST never enters the 401 branch of    *)
(* the response handler: the POST is not marked, queued or made a driver,  *)
(* and a 401 it is answered with is the error its driver catches.          *)
(***************************************************************************)
RefreshPostExempt ==
    \A r \in Users :
        /\ ~retry[PostId(r)]
        /\ pc[PostId(r)] \notin {"queued"} \cup DriverPcs
        /\ (pc[PostId(r)] = "done" /\ IsRejection(result[PostId(r)]) /\ pc[r] # "post")
              => local[r].err = result[PostId(r)]

(***************************************************************************)
(* C8.  When the refresh POST succeeded and the response adapter gave no   *)
(* token, the cycle ends in failure: its driver is rejected and so is      *)
(* every request that joined the queue during the cycle.                   *)
(***************************************************************************)
NoTokenFromAdapter(r) ==
    /\ pc[PostId(r)] = "done"
    /\ IsResponse(result[PostId(r)])
    /\ ~Truthy(refreshTokenResponseAdapter(result[PostId(r)][2]).token)

MalformedRefreshFails ==
    \A r \in Users :
        (NoTokenFromAdapter(r) /\ pc[r] \notin DriverPcs) =>
            /\ pc[r] = "done" /\ IsRejection(result[r])
            /\ \A i \in Ids : QueuedDuring(i, r) => IsRejection(waiter[i])

(***************************************************************************)
(* C9.  When a cycle has failed, its driver and every request that joined  *)
(* the queue during the cycle are rejected with the error that made the    *)
(* refresh fail, also when removeTokenFn or onRefreshFailure fails.        *)
(***************************************************************************)
SameRefreshError ==
    \A r \in Users :
        (local[r].err # Undefined /\ pc[r] = "done") =>
            /\ result[r] = local[r].err
            /\ \A i \in Ids : QueuedDuring(i, r) => waiter[i] = local[r].err

(***************************************************************************)
(* C10.  When getRefreshTokenFn returns no refresh token to the driver,    *)
(* the cycle makes no POST and fails with the missing-refresh-token error: *)
(* the requests that joined the queue are rejected with it, both tokens    *)
(* are removed from the store and the driver is rejected with it.          *)
(***************************************************************************)
MissingRefreshToken ==
    \A r \in Users :
        local[r].err = NoRefreshToken =>
            /\ pc[PostId(r)] = "new"
            /\ pc[r] = "done" =>
                  /\ result[r] = NoRefreshToken
                  /\ storeToken[client[r]] = Null
                  /\ storeRefreshToken[client[r]] = Null
                  /\ \A i \in Ids : QueuedDuring(i, r) => waiter[i] = NoRefreshToken

(***************************************************************************)
(* C11.  With onRefreshFailure configured: a cycle that has failed has     *)
(* called it exactly once, with the error that made the refresh fail; a    *)
(* cycle that succeeded has not called it; no cycle calls it twice.        *)
(***************************************************************************)
CycleFailed(c) ==
    /\ cycle[c] > 0
    /\ pc[cycleDriver[c]] = "done"
    /\ local[cycleDriver[c]].err # Undefined

CycleSucceeded(c) == cycle[c] > 0 /\ succeeded[cycleDriver[c]]

CallbackOncePerFailure ==
    \A c \in Clients :
        onRefreshFailure[c] =>
            /\ Len(callbackLog[c]) <= 1
            /\ CycleFailed(c) => callbackLog[c] = <<local[cycleDriver[c]].err>>
            /\ CycleSucceeded(c) => callbackLog[c] = <<>>

(***************************************************************************)
(* C12.  Order of the failure path, whatever reason the refresh failed     *)
(* with.  While the driver awaits removeTokenFn the requests its catch     *)
(* block found in the queue are already rejected with the caught reason    *)
(* and onRefreshFailure has not been called; when onRefreshFailure is      *)
(* called, and until it returns, they are rejected and the store holds     *)
(* neither a token nor a refresh token.                                    *)
(***************************************************************************)
Drained(r) == {i \in Ids : QueuedDuring(i, r) /\ i \notin Queued(client[r])}

FailurePathOrder ==
    \A r \in Users :
        /\ pc[r] \in {"removeToken", "onRefreshFailure"} =>
              \A i \in Drained(r) : waiter[i] = local[r].err
        /\ pc[r] = "removeToken" => callbackLog[client[r]] = <<>>
        /\ pc[r] = "onRefreshFailure" =>
              /\ storeToken[client[r]] = Null
              /\ storeRefreshToken[client[r]] = Null
              /\ callbackLog[client[r]] = <<local[r].err>>

(***************************************************************************)
(* C13.  Order of the success path.  In the step in which the driver       *)
(* releases the queue and issues its request again, the store already      *)
(* holds the new token and the new refresh token; the requests released    *)
(* are resolved with that token; the driver's request is issued again with *)
(* Authorization = prefix + new token in its config, for the first and     *)
(* only time.                                                              *)
(***************************************************************************)
Resolved(i) == waiter[i] # Undefined /\ ~IsRejection(waiter[i])

ReleasedWithToken(r) == succeeded[r] /\ Truthy(local[r].newToken)

ReleasedSentWithCycleToken ==
    \A r \in Users : \A i \in Ids :
        (QueuedDuring(i, r) /\ ReleasedWithToken(r)) =>
            /\ reissued[i] <= 1
            /\ pc[i] # "queued" => reissued[i] = 1
            /\ pc[i] = "sent" => auth[i] = AuthHeader(local[r].newToken)

(***************************************************************************)
(* C15.  A response with status 500 is rejected to the caller as it is and *)
(* the step changes nothing else: not the flag, the queue, the store, the  *)
(* default header, the request's _retry or its headers; no other handler   *)
(* moves, no POST is made, no cycle begins, onRefreshFailure is not called *)
(* -- whether a refresh is running or not.                                 *)
(***************************************************************************)
NonAuthErrorUntouched ==
    [][\A r \in Ids :
          (pc[r] = "sent" /\ result'[r] # result[r] /\ result'[r] = AxiosError(500)) =>
              /\ pc'[r] = "done"
              /\ \A d \in Ids \ {r} : pc'[d] = pc[d] /\ result'[d] = result[d]
              /\ UNCHANGED <<store, closure, defaultsAuth, retry, auth, waiter,
                             cycle, postCalls, callbackLog>>
      ]_vars

\* a request that was not retried has been rejected with its 500 and a refresh
\* is running with a request in its queue
NonAuthErrorWitness ==
    \E r \in Users :
        /\ pc[r] = "done" /\ result[r] = AxiosError(500) /\ ~retry[r]
        /\ isRefreshing[client[r]] /\ failedQueue[client[r]] # <<>>
        /\ storeToken[client[r]] # Null

(***************************************************************************)
(* C16.  Whatever cycles came before, the header a request is sent with is *)
(* decided by what getTokenFn returns when the request interceptor runs:   *)
(* prefix + token when it returns one, no Authorization header when it     *)
(* returns none.                                                           *)
(***************************************************************************)
HeaderFollowsStore ==
    [][\A r \in Ids :
          (pc[r] = "getToken" /\ pc'[r] = "sent") =>
              auth'[r] = IF Truthy(storeToken[client[r]])
                         THEN AuthHeader(storeToken[client[r]])
                         ELSE Undefined
      ]_vars

(***************************************************************************)
(* C17.  A drain, with a token or with an error, invokes the continuations *)
(* of the queued requests in the order the requests joined the queue, and  *)
(* the requests resume in that order.  A drain is one uninterrupted step:  *)
(* the queue only ever grows by one request at its end or becomes empty,   *)
(* and no request in the queue has a settled promise.                      *)
(***************************************************************************)
\* the last n continuations of a microtask queue
Scheduled(tasks, n) == SubSeq(tasks, Len(tasks) - n + 1, Len(tasks))

FifoDrain ==
    [][/\ \A c \in Clients :
             /\ \/ failedQueue'[c] = failedQueue[c]
                \/ failedQueue'[c] = <<>>
                \/ \E r \in Ids : /\ failedQueue'[c] = Append(failedQueue[c], r)
                                  /\ waiter' = [waiter EXCEPT ![r] = Undefined]
             /\ (\E i \in Queued(c) : waiter'[i] # waiter[i]) =>
                   /\ failedQueue'[c] = <<>>
                   /\ \A i \in Queued(c) : waiter[i] = Undefined /\ waiter'[i] # Undefined
                   /\ Len(microtasks') >= Len(failedQueue[c])
                   /\ Scheduled(microtasks', Len(failedQueue[c])) = failedQueue[c]
             /\ \A i \in Queued(c)' : waiter'[i] = Undefined
       /\ \A i \in Ids :
             (pc[i] = "queued" /\ pc'[i] # "queued") =>
                 microtasks # <<>> /\ Head(microtasks) = i
      ]_vars

\* two requests have been settled by one drain and the first of them resumed
FifoDrainWitness ==
    \E c \in Clients : \E i, j \in Users :
        /\ i # j /\ enqDriver[i] = enqDriver[j] /\ enqDriver[i] # 0
        /\ settled[i] = 1 /\ settled[j] = 1
        /\ pc[i] # "queued" /\ pc[j] = "queued"
        /\ microtasks = <<j>>

(***************************************************************************)
(* C18.  Two instances, two closures.  A request joins the queue only      *)
(* when the flag of its own instance is set, and then the queue of its own *)
(* instance; with that flag clear its 401 starts a refresh of its own      *)
(* instance whatever the other instance is doing; a queue holds requests   *)
(* of its own instance only, and a queued request is settled only by a     *)
(* drain of the driver of its own instance.                                *)
(***************************************************************************)
Others(c) == Clients \ {c}

ClosurePerClient ==
    [][/\ \A r \in Ids :
             /\ (pc[r] = "sent" /\ pc'[r] = "queued") =>
                   /\ isRefreshing[client[r]]
                   /\ failedQueue'[client[r]] = Append(failedQueue[client[r]], r)
             /\ (pc[r] = "sent" /\ pc'[r] = "getRefreshToken") =>
                   ~isRefreshing[client[r]] /\ isRefreshing'[client[r]]
             /\ pc'[r] # pc[r] =>
                   \A c \in Others(client[r]) :
                       /\ isRefreshing'[c] = isRefreshing[c]
                       /\ failedQueue'[c] = failedQueue[c]
             /\ (waiter'[r] # waiter[r] /\ waiter'[r] # Undefined) =>
                   /\ client[settledBy'[r]] = client[r]
                   /\ pc[settledBy'[r]] \in DriverPcs
       /\ \A c \in Clients : \A i \in Queued(c)' : client[i] = c
       /\ \A r \in Users :
             (/\ Idle /\ pc[r] = "sent" /\ ~retry[r] /\ ~isRefreshing[client[r]]
              /\ Cycles(NumClients) < MaxCycles) =>
                 ENABLED StartRefresh(r) /\ ~ENABLED Enqueue(r)
      ]_vars

\* both instances are refreshing; the driver of the first has made its drain
\* while a request of the second waits in the queue of the second
ClosurePerClientWitness ==
    /\ isRefreshing[1] /\ isRefreshing[2]
    /\ pc[1] = "removeToken"
    /\ failedQueue[1] = <<>>
    /\ failedQueue[2] # <<>>
    /\ \A i \in Queued(2) : client[i] = 2 /\ waiter[i] = Undefined

(***************************************************************************)
(* C19.  A request that joined the queue during a cycle is settled by the  *)
(* drain of that cycle, never by the drain of a later one: a request in    *)
(* the queue joined it during the cycle still running, also when it joined *)
(* after the drain of the catch block, while removeTokenFn or              *)
(* onRefreshFailure was awaited.                                           *)
(***************************************************************************)
SettledByOwnCycle ==
    /\ \A i \in Ids : settled[i] >= 1 => settledBy[i] = enqDriver[i]
    /\ \A c \in Clients : \A i \in Queued(c) :
          isRefreshing[c] /\ enqDriver[i] = cycleDriver[c]

(***************************************************************************)
(* C20.  The request the handler has issued again is outside the refresh:  *)
(* at the moment it is issued again the flag of its instance is clear and  *)
(* the queue empty; whatever it is answered, it is never queued and never  *)
(* drives a refresh; and the step that rejects it, with a 401 or any other *)
(* error, removes nothing from the store, does not call onRefreshFailure   *)
(* and moves no other handler.                                             *)
(***************************************************************************)
RetryFailureContained ==
    [][\A r \in Users :
          /\ (reissued[r] = 0 /\ reissued'[r] = 1) =>
                ~isRefreshing'[client[r]] /\ failedQueue'[client[r]] = <<>>
          /\ (reissued[r] = 1 /\ pc[r] \in {"getToken", "sent"}) =>
                /\ pc'[r] \in {"getToken", "sent", "done"}
                /\ (pc'[r] = "done" /\ IsRejection(result'[r])) =>
                      /\ UNCHANGED <<store, closure, defaultsAuth, callbackLog,
                                     cycle, postCalls>>
                      /\ \A d \in Ids \ {r} : pc'[d] = pc[d]
      ]_vars

====
